---- MODULE Spec2Model ----
(***************************************************************************)
(* A model of vial-cash (vial-plugin/cash/cash.py): the ledger engine      *)
(* (Account, Cash), the date filter and the block-or-inline parser.        *)
(*                                                                         *)
(* Representation.                                                         *)
(*  - A qualified account name is the sequence of its colon-separated      *)
(*    segments: "a:pocket" is <<"a", "pocket">>, "a" is <<"a">> and the    *)
(*    empty string is <<"">>.                                              *)
(*  - Amounts are integers (the floats the lexer yields for integral       *)
(*    literals, on which float addition and negation are exact).           *)
(*  - A balance (a defaultdict(float)) is a function whose DOMAIN is the   *)
(*    set of keys the dictionary holds; reading a missing key through      *)
(*    __getitem__ inserts it with 0.0.                                     *)
(*  - A namedtuple, an object or a dictionary of fixed keys is a record;   *)
(*    every record constructor lists its fields in the order in which the  *)
(*    field names first occur in this module.                              *)
(***************************************************************************)
EXTENDS Integers, Sequences, FiniteSets, Bags, TLC

VARIABLES
    accounts,   \* Cash.accounts: qname -> Account
    currency,   \* Cash.currency
    rates,      \* Cash.rates
    applied,    \* history: the bag of calls made on the ledger
    result,     \* the outcome of the last call
    doc,        \* the ledger file, as the entries it was written from
    lines,      \* the ledger file, as the lines parse is given
    feed,       \* the parser's state: token feed and config
    pc,         \* where the run stands
    taken       \* history of a run of the feed alone: the tokens it handed over, in order

vars == <<accounts, currency, rates, applied, result, doc, lines, feed, pc, taken>>

None == "None"       \* None, where a string may stand
NoAccount == <<>>    \* None, where an account may stand
NoReverse == 0       \* None, where a sign multiplier may stand (both are falsy)
NoDate == [year |-> 0, month |-> 0, day |-> 0]   \* None, where a date may stand
NoToken == [id |-> "none"]   \* None, where a token may stand

\* ------------------------------------------------------------------ bounds
MaxCalls == 2       \* get_account and process_account calls on one ledger
MaxLegs == 2        \* amount lines of one dated block
MaxEntries == 2     \* one-line entries of one ledger file
MaxRates == 3       \* rate lines of one ledger file

\* ------------------------------------------------------------------ inputs
FirstSegs == {"a", "e", "l", "i", "x", ""}
\* the names get_account is called with: every first segment, alone and
\* followed by p and by p:q
Names ==
    {<<f>> : f \in FirstSegs} \cup {<<f, "p">> : f \in FirstSegs}
        \cup {<<f, "p", "q">> : f \in FirstSegs}
\* the names operations are applied to
OpNames ==
    {<<"a", "p">>, <<"a", "p", "q">>, <<"e", "p">>, <<"l", "p">>,
     <<"l", "p", "q">>, <<"i", "p">>, <<"x", "p">>}
Amounts == {-1, 2}
OpCurrencies == {None, "RUR"}

\* ------------------------------------------------------------------ Account
\* rpartition, were a name without a colon filed under assets
rpartition_underAssets(qname) ==
    IF Len(qname) = 1
    THEN [head |-> <<"a">>, sep |-> "", tail |-> qname[1]]
    ELSE [head |-> SubSeq(qname, 1, Len(qname) - 1), sep |-> ":",
          tail |-> qname[Len(qname)]]

\* str.rpartition(':') on a qualified name
rpartition(qname) ==
    IF Len(qname) = 1
    THEN [head |-> <<"">>, sep |-> "", tail |-> qname[1]]
    ELSE [head |-> SubSeq(qname, 1, Len(qname) - 1), sep |-> ":",
          tail |-> qname[Len(qname)]]

EmptyStr == <<"">>

\* NewAccount, were the parent's sign multiplier not handed down
NewAccount_noInherit(qname, title, reverse, parent, plevel) ==
    [accounts |-> <<>>,
     qname    |-> qname,
     title    |-> title,
     reverse  |-> IF parent = NoAccount /\ reverse # 0 THEN reverse ELSE 1,
     parent   |-> parent,
     balance  |-> <<>>,
     level    |-> IF parent # NoAccount THEN plevel + 1 ELSE 0]

\* Account.__init__; parent is the parent's qname, plevel its level
NewAccount(qname, title, reverse, parent, plevel) ==
    [accounts |-> <<>>,
     qname    |-> qname,
     title    |-> title,
     reverse  |-> IF reverse = 0 THEN 1 ELSE reverse,
     parent   |-> parent,
     balance  |-> <<>>,
     level    |-> IF parent # NoAccount THEN plevel + 1 ELSE 0]

\* defaultdict.__getitem__ followed by +=
AddTo(balance, cur, amount) ==
    IF cur \in DOMAIN balance
    THEN [balance EXCEPT ![cur] = @ + amount]
    ELSE [c \in DOMAIN balance \cup {cur} |->
             IF c = cur THEN 0 + amount ELSE balance[c]]

\* Add, were the sign multiplier never applied
Add_noSign(acc, amount, cur, initial) ==
    [acc EXCEPT !.balance = AddTo(acc.balance, cur, amount)]

\* Account.add
Add(acc, amount, cur, initial) ==
    LET amt == IF ~initial THEN amount * acc.reverse ELSE amount
    IN  [acc EXCEPT !.balance = AddTo(acc.balance, cur, amt)]

\* ------------------------------------------------------------------ Cash
\* CashAccounts, were expenses given the sign multiplier of income
CashAccounts_expensesReversed ==
    [q \in {<<"a">>, <<"e">>, <<"l">>, <<"i">>} |->
        CASE q = <<"a">> -> NewAccount(<<"a">>, "assets", NoReverse, NoAccount, 0)
          [] q = <<"e">> -> NewAccount(<<"e">>, "expenses", -1, NoAccount, 0)
          [] q = <<"l">> -> NewAccount(<<"l">>, "liabilities", -1, NoAccount, 0)
          [] q = <<"i">> -> NewAccount(<<"i">>, "income", -1, NoAccount, 0)]

\* Cash.__init__
CashAccounts ==
    [q \in {<<"a">>, <<"e">>, <<"l">>, <<"i">>} |->
        CASE q = <<"a">> -> NewAccount(<<"a">>, "assets", NoReverse, NoAccount, 0)
          [] q = <<"e">> -> NewAccount(<<"e">>, "expenses", NoReverse, NoAccount, 0)
          [] q = <<"l">> -> NewAccount(<<"l">>, "liabilities", -1, NoAccount, 0)
          [] q = <<"i">> -> NewAccount(<<"i">>, "income", -1, NoAccount, 0)]

CashCurrency(cur) == IF cur = None THEN "USD" ELSE cur

\* m with key k bound to v (dict.__setitem__)
SetItem(m, k, v) == [x \in DOMAIN m \cup {k} |-> IF x = k THEN v ELSE m[x]]

\* get_account, were the lookup of an existing account skipped below the roots
RECURSIVE get_account_fresh(_, _)
get_account_fresh(accs, qname) ==
    IF qname \in DOMAIN accs /\ Len(qname) = 1
    THEN [accs |-> accs, ok |-> TRUE, node |-> qname]
    ELSE LET rp == rpartition(qname)
         IN  IF rp.head = EmptyStr
             THEN [accs |-> accs, ok |-> FALSE, node |-> qname]
             ELSE LET p == get_account_fresh(accs, rp.head)
                  IN  IF ~p.ok THEN p
                      ELSE LET par == p.accs[p.node]
                               account == NewAccount(qname, rp.tail, par.reverse,
                                                     p.node, par.level)
                               withAcc == SetItem(p.accs, qname, account)
                           IN  [accs |-> [withAcc EXCEPT ![p.node].accounts =
                                             SetItem(@, rp.tail, qname)],
                                ok |-> TRUE,
                                node |-> qname]

\* Cash.get_account: [ok, accs, node]; on KeyError accs is returned untouched
RECURSIVE get_account(_, _)
get_account(accs, qname) ==
    IF qname \in DOMAIN accs
    THEN [accs |-> accs, ok |-> TRUE, node |-> qname]
    ELSE LET rp == rpartition(qname)
         IN  IF rp.head = EmptyStr
             THEN [accs |-> accs, ok |-> FALSE, node |-> qname]
             ELSE LET p == get_account(accs, rp.head)
                  IN  IF ~p.ok THEN p
                      ELSE LET par == p.accs[p.node]
                               account == NewAccount(qname, rp.tail, par.reverse,
                                                     p.node, par.level)
                               withAcc == SetItem(p.accs, qname, account)
                           IN  [accs |-> [withAcc EXCEPT ![p.node].accounts =
                                             SetItem(@, rp.tail, qname)],
                                ok |-> TRUE,
                                node |-> qname]

\* AddUp, were the walk to the parents left out
AddUp_leafOnly(accs, node, amount, cur, initial) ==
    [accs EXCEPT ![node] = Add(@, amount, cur, initial)]

\* the loop of Cash.process_account: account and all its ancestors
RECURSIVE AddUp(_, _, _, _, _)
AddUp(accs, node, amount, cur, initial) ==
    IF node = NoAccount THEN accs
    ELSE AddUp([accs EXCEPT ![node] = Add(@, amount, cur, initial)],
               accs[node].parent, amount, cur, initial)

\* Cash.process_account: [ok, accs]
process_account(accs, base, name, amount, cur, initial) ==
    LET c == IF cur = None THEN base ELSE cur
        g == get_account(accs, name)
    IN  IF ~g.ok THEN [accs |-> accs, ok |-> FALSE]
        ELSE [accs |-> AddUp(g.accs, g.node, amount, c, initial), ok |-> TRUE]

\* Cash.equity: the mapping returned, and the ledger after the reads of
\* self.assets.balance[r] and self.liabilities.balance[r], which insert r
\* into a defaultdict that lacks it
Touch(balance, curs) ==
    [c \in DOMAIN balance \cup curs |-> IF c \in DOMAIN balance THEN balance[c] ELSE 0]

\* equity, were liabilities added to assets
equity_sum(accs) ==
    LET curs == DOMAIN accs[<<"a">>].balance \cup DOMAIN accs[<<"l">>].balance
        after == [accs EXCEPT ![<<"a">>].balance = Touch(@, curs),
                              ![<<"l">>].balance = Touch(@, curs)]
    IN  [accs  |-> after,
         value |-> [r \in curs |-> after[<<"a">>].balance[r] + after[<<"l">>].balance[r]]]

equity(accs) ==
    LET curs == DOMAIN accs[<<"a">>].balance \cup DOMAIN accs[<<"l">>].balance
        after == [accs EXCEPT ![<<"a">>].balance = Touch(@, curs),
                              ![<<"l">>].balance = Touch(@, curs)]
    IN  [accs  |-> after,
         value |-> [r \in curs |-> after[<<"a">>].balance[r] - after[<<"l">>].balance[r]]]

\* convert_amount, were the rate of the reverse pair taken when the pair has none
convert_amount_eitherWay(rts, from_currency, to_currency, amount) ==
    IF from_currency = to_currency THEN [ok |-> TRUE, value |-> amount]
    ELSE IF (from_currency \o to_currency) \in DOMAIN rts
         THEN [ok |-> TRUE, value |-> amount * rts[from_currency \o to_currency]]
    ELSE IF (to_currency \o from_currency) \in DOMAIN rts
         THEN [ok |-> TRUE, value |-> amount * rts[to_currency \o from_currency]]
    ELSE [ok |-> FALSE, value |-> 0]

\* Cash.convert_amount: [ok, value]; ok is FALSE when self.rates[...] raises
\* KeyError
convert_amount(rts, from_currency, to_currency, amount) ==
    IF from_currency = to_currency THEN [ok |-> TRUE, value |-> amount]
    ELSE IF (from_currency \o to_currency) \in DOMAIN rts
         THEN [ok |-> TRUE, value |-> amount * rts[from_currency \o to_currency]]
    ELSE [ok |-> FALSE, value |-> 0]

\* Cash.total: [ok, value], the sum over balance.items(); ok is FALSE when
\* convert_amount raises for one of them
RECURSIVE TotalOver(_, _, _, _)
TotalOver(rts, base, balance, curs) ==
    IF curs = {} THEN [ok |-> TRUE, value |-> 0]
    ELSE LET cur == CHOOSE c \in curs : TRUE
             one == convert_amount(rts, cur, base, balance[cur])
             rest == TotalOver(rts, base, balance, curs \ {cur})
         IN  IF one.ok /\ rest.ok THEN [ok |-> TRUE, value |-> one.value + rest.value]
             ELSE [ok |-> FALSE, value |-> 0]

total(rts, base, balance) == TotalOver(rts, base, balance, DOMAIN balance)

\* ------------------------------------------------------------------ lexer
LEND == "lend"
INDENT == "indent"
DATE == "date"
COMMENT == "comment"
NUMBER == "number"
ID == "id"
CID == "cid"

CURRENCY == "currency"
RATE == "rate"
INITIAL == "initial"
SPLIT == "split"
REV == "rev"
KEYWORDS == {CURRENCY, RATE, INITIAL, SPLIT, REV}

Date(y, m, d) == [year |-> y, month |-> m, day |-> d]
INITDATE == Date(1983, 6, 11)

\* date.__lt__ and date.__ge__
DateLT(x, y) ==
    \/ x.year < y.year
    \/ x.year = y.year /\ x.month < y.month
    \/ x.year = y.year /\ x.month = y.month /\ x.day < y.day
DateGE(x, y) == ~DateLT(x, y)

Token(id, value, line) == [id |-> id, value |-> value, line |-> line]

\* A line of text is [indent, parts]: its leading whitespace and its
\* whitespace-separated parts.  A part is [text, cls, val]: its text, the
\* class the lexer's tests put it in ("colon": holds a ':'; "date": holds a
\* '-' and strptime reads it; "number": float() reads it; "word": none of
\* these) and the value strptime or float() gives.
RECURSIVE JoinTexts(_)
JoinTexts(parts) ==
    IF parts = <<>> THEN ""
    ELSE IF Len(parts) = 1 THEN parts[1].text
    ELSE parts[1].text \o " " \o JoinTexts(Tail(parts))

\* the while loop of lexer over the parts of line ln
RECURSIVE LexParts(_, _)
LexParts(parts, ln) ==
    IF parts = <<>> THEN <<>>
    ELSE LET part == Head(parts)
             rest == Tail(parts)
         IN  IF part.text = "#" THEN <<Token(COMMENT, JoinTexts(rest), ln)>>
             ELSE IF part.text \in KEYWORDS
                  THEN <<Token(part.text, part.text, ln)>> \o LexParts(rest, ln)
             ELSE IF part.cls = "colon"
                  THEN <<Token(CID, part.val, ln)>> \o LexParts(rest, ln)
             ELSE IF part.cls = "date"
                  THEN <<Token(DATE, part.val, ln)>> \o LexParts(rest, ln)
             ELSE IF part.cls = "number"
                  THEN <<Token(NUMBER, part.val, ln)>> \o LexParts(rest, ln)
             ELSE <<Token(ID, part.text, ln)>> \o LexParts(rest, ln)

\* lexer: the tokens of lines ln, ln+1, ...
RECURSIVE lexer(_, _)
lexer(text, ln) ==
    IF text = <<>> THEN <<>>
    ELSE LET line == Head(text)
         IN  IF line.parts = <<>> THEN lexer(Tail(text), ln + 1)
             ELSE (IF line.indent # "" THEN <<Token(INDENT, line.indent, ln)>> ELSE <<>>)
                  \o LexParts(line.parts, ln)
                  \o <<Token(LEND, None, ln)>>
                  \o lexer(Tail(text), ln + 1)

\* ------------------------------------------------------------------ TokenFeed
\* The parser's state is [toks, item, config, st, val]: the tokens the lexer
\* has yet to yield, TokenFeed.item, the config dictionary, how the call
\* ended ("ok", "eof": StopIteration, "err": the Exception of popany) and
\* what it returned.
\* the rest of a method after a call that may raise: F on what the call
\* left, unless the call ended in StopIteration or in the Exception of popany
\* (p stands for what the call left, worked out once)
Then(P, F(_)) ==
    CHOOSE r \in {IF p.st # "ok" THEN p ELSE F(p) : p \in {P}} : TRUE

\* pop, were the token kept in self.item after it is returned
pop_keeping(P) ==
    IF P.item # NoToken THEN [P EXCEPT !.val = P.item]
    ELSE IF P.toks = <<>> THEN [P EXCEPT !.st = "eof"]
    ELSE [P EXCEPT !.toks = Tail(P.toks), !.val = Head(P.toks)]

\* pop, were the end of the lexer the Exception of a parse error
pop_endIsError(P) ==
    IF P.item # NoToken THEN [P EXCEPT !.item = NoToken, !.val = P.item]
    ELSE IF P.toks = <<>> THEN [P EXCEPT !.st = "err"]
    ELSE [P EXCEPT !.toks = Tail(P.toks), !.val = Head(P.toks)]

\* TokenFeed.pop
pop(P) ==
    IF P.item # NoToken THEN [P EXCEPT !.item = NoToken, !.val = P.item]
    ELSE IF P.toks = <<>> THEN [P EXCEPT !.st = "eof"]
    ELSE [P EXCEPT !.toks = Tail(P.toks), !.val = Head(P.toks)]

\* peek, were the token not kept in self.item
peek_dropping(P) == pop(P)

\* TokenFeed.peek
peek(P) == Then(pop(P), LAMBDA p : [p EXCEPT !.item = p.val])

\* TokenFeed.popany
popany(P, ids) ==
    Then(pop(P), LAMBDA p : IF p.val.id \notin ids THEN [p EXCEPT !.st = "err"] ELSE p)

\* TokenFeed.nextis
nextis(P, id) == Then(peek(P), LAMBDA p : [p EXCEPT !.val = (p.val.id = id)])

\* skipif, were any value taken for the one asked for
skipif_anyValue(P, id, like) ==
    Then(pop(P), LAMBDA p :
        IF p.val.id = id THEN [p EXCEPT !.val = TRUE]
        ELSE [p EXCEPT !.item = p.val, !.val = FALSE])

\* TokenFeed.skipif; like is the token whose value must match, or NoToken
\* when no value is asked for (a LEND token carries the value None)
skipif(P, id, like) ==
    Then(pop(P), LAMBDA p :
        IF /\ p.val.id = id
           /\ (like = NoToken \/ like.id = LEND \/ p.val.value = like.value)
        THEN [p EXCEPT !.val = TRUE]
        ELSE [p EXCEPT !.item = p.val, !.val = FALSE])

\* TokenFeed.get
get(P, id) ==
    Then(nextis(P, id), LAMBDA n :
        IF n.val THEN Then(pop(n), LAMBDA p : [p EXCEPT !.val = p.val.value])
        ELSE [n EXCEPT !.val = None])

Op(initial, dt, account, amount, cur, comment) ==
    [currency |-> cur, amount |-> amount, initial |-> initial, account |-> account,
     comment |-> comment, dt |-> dt]

\* ------------------------------------------------------------------ parser
\* TokenFeed.indent, func being the nested function the call decorates
indent(P, func(_)) ==
    LET RECURSIVE Loop(_, _)
        \* while self.skipif(INDENT, indent): func()
        Loop(p, like) ==
            Then(skipif(p, INDENT, like), LAMBDA s :
                IF ~s.val THEN s ELSE Then(func(s), LAMBDA r : Loop(r, like)))
    IN  Then(skipif(P, LEND, NoToken), LAMBDA s :
            IF s.val THEN Then(peek(s), LAMBDA k : Loop(k, k.val))
            ELSE func(s))

\* parse_rate.parse
parse_rate_line(P) ==
    Then(popany(P, {ID}), LAMBDA c :
    Then(popany(c, {NUMBER}), LAMBDA m :
    popany([m EXCEPT !.config.rates = SetItem(@, c.val.value, m.val.value)], {LEND})))

parse_rate(P) == indent(P, parse_rate_line)

\* parse_initial.parse
parse_initial_line(P) ==
    Then(popany(P, {CID}), LAMBDA a :
    Then(popany(a, {NUMBER}), LAMBDA n :
    Then(get(n, ID), LAMBDA c :
    Then(get(c, COMMENT), LAMBDA m :
    popany([m EXCEPT !.config.ops =
               Append(@, Op(TRUE, INITDATE, a.val.value, n.val.value, c.val, m.val))],
           {LEND})))))

parse_initial(P) == indent(P, parse_initial_line)

\* parse_date.parse_from.parse.parse_op (an amount line under split)
parse_split_op(P, dt, acc) ==
    Then(popany(P, {NUMBER}), LAMBDA n :
    Then(get(n, ID), LAMBDA c :
    Then(get(c, COMMENT), LAMBDA m :
    popany([m EXCEPT !.config.ops =
               Append(@, Op(FALSE, dt, acc, n.val.value, c.val, m.val))],
           {LEND}))))

\* parse_date.parse_from.parse (an account line under split)
parse_split_acc(P, dt) ==
    Then(popany(P, {CID}), LAMBDA a :
    indent(a, LAMBDA p : parse_split_op(p, dt, a.val.value)))

\* Signed, were rev ignored
Signed_revIgnored(reverse, amount) == amount

\* amount = -amount under rev
Signed(reverse, amount) == IF reverse THEN -amount ELSE amount

\* parse_op, were the two legs appended the other way round
parse_op_swapped(P, dt, reverse, acc1, acc2) ==
    Then(popany(P, {NUMBER}), LAMBDA n :
    Then(get(n, ID), LAMBDA c :
    Then(get(c, COMMENT), LAMBDA m :
    popany([m EXCEPT !.config.ops =
               Append(Append(@, Op(FALSE, dt, acc2, Signed(reverse, n.val.value),
                                   c.val, m.val)),
                      Op(FALSE, dt, acc1, -Signed(reverse, n.val.value), c.val, m.val))],
           {LEND}))))

\* parse_op, were the amount appended unnegated for both accounts
parse_op_sameSign(P, dt, reverse, acc1, acc2) ==
    Then(popany(P, {NUMBER}), LAMBDA n :
    Then(get(n, ID), LAMBDA c :
    Then(get(c, COMMENT), LAMBDA m :
    popany([m EXCEPT !.config.ops =
               Append(Append(@, Op(FALSE, dt, acc1, Signed(reverse, n.val.value),
                                   c.val, m.val)),
                      Op(FALSE, dt, acc2, Signed(reverse, n.val.value), c.val, m.val))],
           {LEND}))))

\* parse_date.parse_from.parse_to.parse_op
parse_op(P, dt, reverse, acc1, acc2) ==
    Then(popany(P, {NUMBER}), LAMBDA n :
    Then(get(n, ID), LAMBDA c :
    Then(get(c, COMMENT), LAMBDA m :
    popany([m EXCEPT !.config.ops =
               Append(Append(@, Op(FALSE, dt, acc1, -Signed(reverse, n.val.value),
                                   c.val, m.val)),
                      Op(FALSE, dt, acc2, Signed(reverse, n.val.value), c.val, m.val))],
           {LEND}))))

\* parse_date.parse_from.parse_to
parse_to(P, dt, reverse, acc1) ==
    Then(popany(P, {CID}), LAMBDA a :
    indent(a, LAMBDA p : parse_op(p, dt, reverse, acc1, a.val.value)))

\* parse_date.parse_from
parse_from(P, dt) ==
    Then(skipif(P, SPLIT, NoToken), LAMBDA s :
        IF s.val THEN indent(s, LAMBDA p : parse_split_acc(p, dt))
        ELSE Then(skipif(s, REV, NoToken), LAMBDA r :
             Then(popany(r, {CID}), LAMBDA a :
             indent(a, LAMBDA p : parse_to(p, dt, r.val, a.val.value)))))

parse_date(P, dt) == indent(P, LAMBDA p : parse_from(p, dt))

parse_root(P) ==
    Then(popany(P, {RATE, CURRENCY, INITIAL, DATE, COMMENT}), LAMBDA t :
        CASE t.val.id = CURRENCY ->
                Then(popany(t, {ID}), LAMBDA c :
                popany([c EXCEPT !.config.currency = c.val.value], {LEND}))
          [] t.val.id = RATE -> parse_rate(t)
          [] t.val.id = INITIAL -> parse_initial(t)
          [] t.val.id = DATE -> parse_date(t, t.val.value)
          [] t.val.id = COMMENT -> popany(t, {LEND}))

\* the config and the TokenFeed parse starts from
ParseStart(text) ==
    [val |-> None, st |-> "ok", item |-> NoToken, toks |-> lexer(text, 1),
     config |-> [currency |-> None, rates |-> <<>>, ops |-> <<>>]]

\* parse: the while loop, to the StopIteration or the Exception that ends it
RECURSIVE ParseLoop(_)
ParseLoop(P) == IF P.st # "ok" THEN P ELSE ParseLoop(parse_root(P))

parse(text) == ParseLoop(ParseStart(text))

\* ------------------------------------------------------------------ make_cash
\* InRange, were the end of the range taken in
InRange_closed(it, start, end) ==
    /\ (start = NoDate \/ DateGE(it.dt, start))
    /\ (end = NoDate \/ ~DateLT(end, it.dt))

\* the test of filter_ops; start and end are dates or NoDate
InRange(it, start, end) ==
    /\ (start = NoDate \/ DateGE(it.dt, start))
    /\ (end = NoDate \/ DateLT(it.dt, end))

filter_ops(ops, start, end) ==
    LET Test(it) == InRange(it, start, end) IN SelectSeq(ops, Test)

\* apply_operations, were the loop to go on after the KeyError
RECURSIVE apply_operations_goingOn(_, _, _, _)
apply_operations_goingOn(accs, base, ops, done) ==
    IF ops = <<>> THEN [accs |-> accs, ok |-> FALSE, done |-> done]
    ELSE LET op == Head(ops)
             r == process_account(accs, base, op.account, op.amount, op.currency,
                                  op.initial)
         IN  IF ~r.ok THEN apply_operations_goingOn(accs, base, Tail(ops), done)
             ELSE apply_operations_goingOn(r.accs, base, Tail(ops), Append(done, op))

\* Cash.apply_operations: [ok, accs, done], done being the operations
\* accumulated before the KeyError of process_account, if any, ended the loop
RECURSIVE apply_operations(_, _, _, _)
apply_operations(accs, base, ops, done) ==
    IF ops = <<>> THEN [accs |-> accs, ok |-> TRUE, done |-> done]
    ELSE LET op == Head(ops)
             r == process_account(accs, base, op.account, op.amount, op.currency,
                                  op.initial)
         IN  IF ~r.ok THEN [accs |-> accs, ok |-> FALSE, done |-> done]
             ELSE apply_operations(r.accs, base, Tail(ops), Append(done, op))

\* make_cash: [ok, accs, currency, rates, done]
make_cash(config, start, end) ==
    LET base == CashCurrency(config.currency)
        r == apply_operations(CashAccounts, base, filter_ops(config.ops, start, end), <<>>)
    IN  [currency |-> base, rates |-> config.rates, accs |-> r.accs, ok |-> r.ok,
         done |-> r.done]

\* ------------------------------------------------------------------ months
\* The dates datetime.date holds: years 1 to 9999, the days of the month
IsLeap(y) == y % 4 = 0 /\ (y % 100 # 0 \/ y % 400 = 0)
DaysInMonth(y, m) ==
    IF m = 2 THEN (IF IsLeap(y) THEN 29 ELSE 28)
    ELSE IF m \in {4, 6, 9, 11} THEN 30 ELSE 31
IsDate(y, m, d) ==
    /\ y >= 1 /\ y <= 9999
    /\ m >= 1 /\ m <= 12
    /\ d >= 1 /\ d <= DaysInMonth(y, m)

\* date.replace: [ok, value]; ok is FALSE when it raises ValueError
replace(y, m, d) ==
    IF IsDate(y, m, d) THEN [ok |-> TRUE, value |-> Date(y, m, d)]
    ELSE [ok |-> FALSE, value |-> NoDate]

next_month(dt) ==
    LET yd == dt.month \div 12
        month == dt.month % 12
    IN  replace(dt.year + yd, month + 1, dt.day)

\* prev_month, were the year left as it is
prev_month_sameYear(dt) ==
    LET month == (dt.month - 2) % 12
    IN  replace(dt.year, month + 1, dt.day)

prev_month(dt) ==
    LET yd == (dt.month - 2) \div 12
        month == (dt.month - 2) % 12
    IN  replace(dt.year + yd, month + 1, dt.day)

\* month_range: [ok, start, end], the dates being NoDate when next_month raises
month_range(dt) ==
    LET start == replace(dt.year, dt.month, 1)
        end == next_month(start.value)
    IN  [ok |-> end.ok, start |-> IF end.ok THEN start.value ELSE NoDate, end |-> end.value]

\* ------------------------------------------------------------------ ledger files
\* The files the parser is run on, written from entries:
\*   [kind |-> "dated", form, dt, first, legs]  a dated entry, its legs being
\*        [account, amount, currency, comment]; form is "inline" (one line),
\*        "block" (the legs indented under date and first account), "rev" (the
\*        legs indented under `rev first`, itself indented under the date) or
\*        "split" (the legs indented under `split`, indented under the date)
\*        or "nested" (date, first account, second account and amount each
\*        on a line of its own, each indented deeper than the one before)
\*   [kind |-> "initials", legs]    initial, and the legs indented under it
\*   [kind |-> "rates", legs]       rate, and lines `code multiplier` of the
\*        legs [code, multiplier] indented under it
\*   [kind |-> "initial", leg]      initial account amount [currency] [# comment]
\*   [kind |-> "currency", code]    currency code
\*   [kind |-> "rate", code, multiplier]
\*   [kind |-> "comment", words]
\*   [kind |-> "nocode"]            currency, with no code after it
RECURSIVE JoinSegs(_)
JoinSegs(q) == IF Len(q) = 1 THEN q[1] ELSE q[1] \o ":" \o JoinSegs(Tail(q))

Word(t) == [text |-> t, cls |-> "word", val |-> t]
Num(n) == [text |-> ToString(n), cls |-> "number", val |-> n]
Cid(q) == [text |-> JoinSegs(q), cls |-> "colon", val |-> q]
DatePart(d) ==
    [text |-> ToString(d.year) \o "-" \o ToString(d.month) \o "-" \o ToString(d.day),
     cls |-> "date", val |-> d]
Line(ind, parts) == [indent |-> ind, parts |-> parts]

Leg(account, amount, cur, comment) ==
    [currency |-> cur, amount |-> amount, account |-> account, comment |-> comment]

\* the parts of an amount line: account amount [currency] [# comment]
LegParts(leg) ==
    <<Cid(leg.account), Num(leg.amount)>>
        \o (IF leg.currency = None THEN <<>> ELSE <<Word(leg.currency)>>)
        \o (IF leg.comment = <<>> THEN <<>>
            ELSE <<Word("#")>> \o [i \in 1..Len(leg.comment) |-> Word(leg.comment[i])])

LegLines(ind, legs) == [i \in 1..Len(legs) |-> Line(ind, LegParts(legs[i]))]

\* the lines of the legs with the account on one line and the amount on the next
RECURSIVE NestedLines(_, _, _)
NestedLines(ind, deeper, legs) ==
    IF legs = <<>> THEN <<>>
    ELSE <<Line(ind, <<Cid(Head(legs).account)>>),
           Line(deeper, Tail(LegParts(Head(legs))))>>
             \o NestedLines(ind, deeper, Tail(legs))

RenderEntry(e) ==
    CASE e.kind = "currency" -> <<Line("", <<Word(CURRENCY), Word(e.code)>>)>>
      [] e.kind = "rate" -> <<Line("", <<Word(RATE), Word(e.code), Num(e.multiplier)>>)>>
      [] e.kind = "comment" ->
            <<Line("", <<Word("#")>> \o [i \in 1..Len(e.words) |-> Word(e.words[i])])>>
      [] e.kind = "initial" -> <<Line("", <<Word(INITIAL)>> \o LegParts(e.leg))>>
      [] e.kind = "dated" /\ e.form = "inline" ->
            <<Line("", <<DatePart(e.dt), Cid(e.first)>> \o LegParts(e.legs[1]))>>
      [] e.kind = "dated" /\ e.form = "block" ->
            <<Line("", <<DatePart(e.dt), Cid(e.first)>>)>> \o LegLines("  ", e.legs)
      [] e.kind = "dated" /\ e.form = "rev" ->
            <<Line("", <<DatePart(e.dt)>>), Line("  ", <<Word(REV), Cid(e.first)>>)>>
                \o LegLines("    ", e.legs)
      [] e.kind = "dated" /\ e.form = "split" ->
            <<Line("", <<DatePart(e.dt)>>), Line("  ", <<Word(SPLIT)>>)>>
                \o LegLines("    ", e.legs)
      [] e.kind = "dated" /\ e.form = "nested" ->
            <<Line("", <<DatePart(e.dt)>>), Line("  ", <<Cid(e.first)>>)>>
                \o NestedLines("    ", "      ", e.legs)
      [] e.kind = "initials" -> <<Line("", <<Word(INITIAL)>>)>> \o LegLines("  ", e.legs)
      [] e.kind = "nocode" -> <<Line("", <<Word(CURRENCY)>>)>>
      [] e.kind = "rates" ->
            <<Line("", <<Word(RATE)>>)>>
                \o [i \in 1..Len(e.legs) |->
                       Line("  ", <<Word(e.legs[i].code), Num(e.legs[i].multiplier)>>)]

RECURSIVE Render(_)
Render(d) == IF d = <<>> THEN <<>> ELSE RenderEntry(Head(d)) \o Render(Tail(d))

Dated(form, dt, first, legs) ==
    [dt |-> dt, legs |-> legs, kind |-> "dated", form |-> form, first |-> first]

\* nonempty sequences over S of at most n elements
RECURSIVE SeqsUpTo(_, _)
SeqsUpTo(S, n) ==
    IF n = 0 THEN {<<>>}
    ELSE LET shorter == SeqsUpTo(S, n - 1)
         IN  shorter \cup {Append(q, x) : q \in shorter, x \in S}

D1 == Date(2019, 1, 1)
D2 == Date(2019, 2, 1)
Pocket == <<"a", "pocket">>
Flat == <<"e", "flat">>
Friend == <<"l", "friend">>
Job == <<"i", "job">>
FileAccounts == {Pocket, Flat, Friend, Job}

\* one dated block: any first account, up to MaxLegs legs
BlockLegs == {Leg(q, n, None, <<>>) : q \in FileAccounts, n \in {100, 500}}
SplitLegs == {Leg(q, n, None, <<>>) : q \in FileAccounts, n \in {-500, 100}}
Blocks ==
    {Dated(f, D1, q, legs) : f \in {"block", "rev", "nested"}, q \in FileAccounts,
                             legs \in SeqsUpTo(BlockLegs, MaxLegs) \ {<<>>}}
    \cup {Dated("split", D1, NoAccount, legs) : legs \in SeqsUpTo(SplitLegs, MaxLegs) \ {<<>>}}

\* entries that stop short: `initial` with nothing under it, and a dated
\* entry that ends after its first account
EmptyInitials == [legs |-> <<>>, kind |-> "initials"]
Unfinished == Dated("nested", D1, Pocket, <<>>)
\* an entry on an account under no root of the ledger
Stray == Dated("inline", D1, Pocket, <<Leg(<<"x", "shop", "food">>, 100, None, <<>>)>>)

\* one-line entries, and the short entries above
OneLiners ==
    {Dated("inline", d, p[1], <<Leg(p[2], 100, c[1], c[2])>>) :
        d \in {D1, D2},
        p \in {<<Pocket, Flat>>, <<Friend, Flat>>, <<Pocket, Friend>>},
        c \in {<<None, <<>> >>, <<"RUR", <<"two", "words">> >>}}
    \cup {[leg |-> Leg(Pocket, 300, None, <<>>), kind |-> "initial"],
          [leg |-> Leg(Friend, 100, "RUR", <<"debt">>), kind |-> "initial"],
          [kind |-> "currency", code |-> "RUR"],
          [kind |-> "rate", code |-> "RURUSD", multiplier |-> 2],
          [kind |-> "comment", words |-> <<"some", "comment">>],
          [legs |-> <<[code |-> "RURUSD", multiplier |-> 2]>>, kind |-> "rates"],
          EmptyInitials, Unfinished, Stray, [kind |-> "nocode"]}

Docs == {<<b>> : b \in Blocks} \cup SeqsUpTo(OneLiners, MaxEntries)
Bounds == {NoDate, D1, D2}

\* ------------------------------------------------------------------ actions
ncalls == BagCardinality(applied)

Init ==
    /\ accounts = CashAccounts
    /\ currency = CashCurrency(None)
    /\ rates = <<>>
    /\ applied = EmptyBag
    /\ result = [call |-> "init"]
    /\ doc = <<>>
    /\ lines = <<>>
    /\ feed = ParseStart(<<>>)
    /\ pc = "ledger"
    /\ taken = <<>>

\* cash.get_account(qname)
GetAccount(qname) ==
    LET g == get_account(accounts, qname)
    IN  /\ ncalls < MaxCalls
        /\ accounts' = g.accs
        /\ applied' = applied (+) SetToBag({[call |-> "get_account", arg |-> qname]})
        /\ result' = [ok |-> g.ok, value |-> IF g.ok THEN g.node ELSE NoAccount, call |-> "get_account",
                      arg |-> qname]
        /\ UNCHANGED <<currency, rates, doc, lines, feed, pc, taken>>

\* cash.process_account(op.account, op.amount, op.currency, op.initial)
ProcessAccount(op) ==
    LET r == process_account(accounts, currency, op.account, op.amount,
                             op.currency, op.initial)
    IN  /\ ncalls < MaxCalls
        /\ accounts' = r.accs
        /\ applied' = applied (+) SetToBag({[ok |-> r.ok, call |-> "process_account",
                                             arg |-> op]})
        /\ result' = [ok |-> r.ok, call |-> "process_account", arg |-> op]
        /\ UNCHANGED <<currency, rates, doc, lines, feed, pc, taken>>

\* cash.equity
Equity ==
    LET e == equity(accounts)
    IN  /\ accounts' = e.accs
        /\ result' = [value |-> e.value, call |-> "equity"]
        /\ UNCHANGED <<currency, rates, applied, doc, lines, feed, pc, taken>>

Next ==
    \/ \E q \in Names : GetAccount(q)
    \/ \E q \in OpNames, n \in Amounts, c \in OpCurrencies, i \in BOOLEAN :
          ProcessAccount([currency |-> c, amount |-> n, initial |-> i, account |-> q])
    \/ Equity

Spec == Init /\ [][Next]_vars

\* ------------------------------------------------------------------ parse and make_cash
CallOf(op) ==
    [ok |-> TRUE, call |-> "process_account",
     arg |-> [currency |-> op.currency, amount |-> op.amount, initial |-> op.initial,
              account |-> op.account]]

RECURSIVE SeqToBag(_)
SeqToBag(q) == IF q = <<>> THEN EmptyBag ELSE SetToBag({Head(q)}) (+) SeqToBag(Tail(q))

InitParse ==
    /\ doc \in Docs
    /\ lines = Render(doc)
    /\ feed = ParseStart(lines)
    /\ pc = "parse"
    /\ accounts = <<>>
    /\ currency = None
    /\ rates = <<>>
    /\ applied = EmptyBag
    /\ result = [call |-> "init"]
    /\ taken = <<>>

\* one turn of the while loop of parse; parse_root returns None
ParseRoot ==
    LET r == parse_root(feed)
    IN  /\ pc = "parse"
        /\ feed' = [r EXCEPT !.val = None]
        /\ pc' = IF r.st = "ok" THEN "parse" ELSE IF r.st = "eof" THEN "parsed" ELSE "failed"
        /\ UNCHANGED <<accounts, currency, rates, applied, result, doc, lines, taken>>

\* make_cash(config, start, end) on what parse returned
MakeCash(start, end) ==
    LET c == make_cash(feed.config, start, end)
    IN  /\ pc = "parsed"
        /\ accounts' = c.accs
        /\ currency' = c.currency
        /\ rates' = c.rates
        /\ applied' = SeqToBag([i \in 1..Len(c.done) |-> CallOf(c.done[i])])
        /\ result' = [ok |-> c.ok, ops |-> c.done, start |-> start, end |-> end,
                      call |-> "make_cash"]
        /\ pc' = IF c.ok THEN "done" ELSE "failed"
        /\ UNCHANGED <<doc, lines, feed, taken>>

NextParse ==
    \/ ParseRoot
    \/ \E start \in Bounds, end \in Bounds : MakeCash(start, end)

SpecParse == InitParse /\ [][NextParse]_vars

\* the number of tokens the feed has yet to hand over
Left == Len(feed.toks) + (IF feed.item = NoToken THEN 0 ELSE 1)

\* parse runs its loop on: a turn that can be taken is taken
SpecParseFair == SpecParse /\ WF_<<pc, Left>>(ParseRoot)

\* ------------------------------------------------------------------ rates
\* The ledger make_cash builds from a file of rate lines and one entry in a
\* second currency, and the queries convert_amount and total on it.
RateCurrencies == {"USD", "RUR", "EUR"}
RateCodes == {p[1] \o p[2] : p \in {q \in RateCurrencies \X RateCurrencies : q[1] # q[2]}}
RurEntry == Dated("inline", D1, Pocket, <<Leg(Flat, 100, "RUR", <<>>)>>)
RateLiners ==
    {[kind |-> "rate", code |-> c, multiplier |-> 2] : c \in RateCodes}
    \cup {[kind |-> "rate", code |-> "RURUSD", multiplier |-> 3], RurEntry}
RateDocs == SeqsUpTo(RateLiners, MaxRates)
ConvertAmounts == {-100, 7}

InitRates ==
    /\ doc \in RateDocs
    /\ lines = Render(doc)
    /\ feed = parse(lines)
    /\ LET c == make_cash(feed.config, NoDate, NoDate)
       IN  /\ accounts = c.accs
           /\ currency = c.currency
           /\ rates = c.rates
           /\ applied = SeqToBag([i \in 1..Len(c.done) |-> CallOf(c.done[i])])
    /\ result = [call |-> "init"]
    /\ pc = "rates"
    /\ taken = <<>>

\* cash.convert_amount(from_currency, to_currency, amount)
ConvertAmount(from_currency, to_currency, amount) ==
    LET r == convert_amount(rates, from_currency, to_currency, amount)
    IN  /\ result' = [ok |-> r.ok, value |-> r.value, call |-> "convert_amount",
                      arg |-> <<from_currency, to_currency, amount>>]
        /\ UNCHANGED <<accounts, currency, rates, applied, doc, lines, feed, pc, taken>>

\* cash.total(cash.accounts[root].balance)
Total(root) ==
    LET r == total(rates, currency, accounts[root].balance)
    IN  /\ result' = [ok |-> r.ok, value |-> r.value, call |-> "total", arg |-> root]
        /\ UNCHANGED <<accounts, currency, rates, applied, doc, lines, feed, pc, taken>>

NextRates ==
    \/ \E f \in RateCurrencies, t \in RateCurrencies, n \in ConvertAmounts :
          ConvertAmount(f, t, n)
    \/ \E root \in DOMAIN CashAccounts : Total(root)

SpecRates == InitRates /\ [][NextRates]_vars

\* ------------------------------------------------------------------ month arithmetic
\* month_range and prev_month called on dates of the first and last years, of
\* a leap year and of a common year
MonthYears == {1, 2019, 2020, 9999}
MonthDays == {1, 10, 28, 29, 30, 31}
MonthDates ==
    {dt \in [year : MonthYears, month : 1..12, day : MonthDays] :
        IsDate(dt.year, dt.month, dt.day)}

InitMonth ==
    /\ accounts = <<>>
    /\ currency = None
    /\ rates = <<>>
    /\ applied = EmptyBag
    /\ result = [call |-> "init"]
    /\ doc = <<>>
    /\ lines = <<>>
    /\ feed = ParseStart(<<>>)
    /\ pc = "month"
    /\ taken = <<>>

\* month_range(dt)
MonthRange(dt) ==
    LET r == month_range(dt)
    IN  /\ result' = [ok |-> r.ok, value |-> <<r.start, r.end>>, call |-> "month_range",
                      arg |-> dt]
        /\ UNCHANGED <<accounts, currency, rates, applied, doc, lines, feed, pc, taken>>

\* prev_month(dt)
PrevMonth(dt) ==
    LET r == prev_month(dt)
    IN  /\ result' = [ok |-> r.ok, value |-> r.value, call |-> "prev_month", arg |-> dt]
        /\ UNCHANGED <<accounts, currency, rates, applied, doc, lines, feed, pc, taken>>

NextMonth ==
    \/ \E dt \in MonthDates : MonthRange(dt)
    \/ \E dt \in MonthDates : PrevMonth(dt)

SpecMonth == InitMonth /\ [][NextMonth]_vars

\* ------------------------------------------------------------------ the feed alone
\* A TokenFeed over the tokens of a ledger file, its methods called in any
\* order with any token id.  A call that ends in StopIteration or in the
\* Exception of popany ends the run, as it ends parse.
FeedDocs ==
    {<<Dated("nested", D1, Pocket, <<Leg(Flat, 100, None, <<>>), Leg(Friend, 500, None, <<>>)>>)>>,
     <<Dated("inline", D1, Pocket, <<Leg(Flat, 100, "RUR", <<"two", "words">>)>>)>>,
     <<Dated("split", D1, NoAccount, <<Leg(Pocket, -500, None, <<>>)>>)>>,
     <<EmptyInitials, [leg |-> Leg(Pocket, 300, None, <<>>), kind |-> "initial"]>>,
     <<[legs |-> <<[code |-> "RURUSD", multiplier |-> 2]>>, kind |-> "rates"]>>}

\* the ids a caller may ask for, and the tokens whose value skipif may be
\* given with INDENT
FeedIds == {LEND, INDENT, DATE, COMMENT, NUMBER, ID, CID, INITIAL, SPLIT}
FeedIdSets == {{i} : i \in FeedIds} \cup {{RATE, CURRENCY, INITIAL, DATE, COMMENT}}
FeedValues == {Token(INDENT, "  ", 0), Token(INDENT, "    ", 0)}

InitFeed ==
    /\ doc \in FeedDocs
    /\ lines = Render(doc)
    /\ feed = ParseStart(lines)
    /\ pc = "feed"
    /\ accounts = <<>>
    /\ currency = None
    /\ rates = <<>>
    /\ applied = EmptyBag
    /\ result = [call |-> "init"]
    /\ taken = <<>>

\* tokens.pop()
Pop ==
    LET r == pop(feed)
    IN  /\ pc = "feed"
        /\ feed' = r
        /\ pc' = IF r.st = "ok" THEN "feed" ELSE "ended"
        /\ result' = [ok |-> r.st = "ok", call |-> "pop"]
        /\ taken' = IF r.st = "ok" THEN Append(taken, r.val) ELSE taken
        /\ UNCHANGED <<accounts, currency, rates, applied, doc, lines>>

\* tokens.peek()
Peek ==
    LET r == peek(feed)
    IN  /\ pc = "feed"
        /\ feed' = r
        /\ pc' = IF r.st = "ok" THEN "feed" ELSE "ended"
        /\ result' = [ok |-> r.st = "ok", call |-> "peek"]
        /\ UNCHANGED <<accounts, currency, rates, applied, doc, lines, taken>>

\* tokens.popany(*ids)
Popany(ids) ==
    LET r == popany(feed, ids)
    IN  /\ pc = "feed"
        /\ feed' = r
        /\ pc' = IF r.st = "ok" THEN "feed" ELSE "ended"
        /\ result' = [ok |-> r.st = "ok", call |-> "popany"]
        /\ taken' = IF r.st = "ok" THEN Append(taken, r.val) ELSE taken
        /\ UNCHANGED <<accounts, currency, rates, applied, doc, lines>>

\* tokens.nextis(id)
Nextis(id) ==
    LET r == nextis(feed, id)
    IN  /\ pc = "feed"
        /\ feed' = r
        /\ pc' = IF r.st = "ok" THEN "feed" ELSE "ended"
        /\ result' = [ok |-> r.st = "ok", call |-> "nextis"]
        /\ UNCHANGED <<accounts, currency, rates, applied, doc, lines, taken>>

\* tokens.skipif(id, value): the token it drops when it returns True is the
\* one its pop returned
Skipif(id, like) ==
    LET r == skipif(feed, id, like)
    IN  /\ pc = "feed"
        /\ feed' = r
        /\ pc' = IF r.st = "ok" THEN "feed" ELSE "ended"
        /\ result' = [ok |-> r.st = "ok", call |-> "skipif"]
        /\ taken' = IF r.st = "ok" /\ r.val THEN Append(taken, pop(feed).val) ELSE taken
        /\ UNCHANGED <<accounts, currency, rates, applied, doc, lines>>

\* tokens.get(id): the token whose value it returns is the one its pop returned
Get(id) ==
    LET n == nextis(feed, id)
        r == get(feed, id)
    IN  /\ pc = "feed"
        /\ feed' = r
        /\ pc' = IF r.st = "ok" THEN "feed" ELSE "ended"
        /\ result' = [ok |-> r.st = "ok", call |-> "get"]
        /\ taken' = IF r.st = "ok" /\ n.val THEN Append(taken, pop(n).val) ELSE taken
        /\ UNCHANGED <<accounts, currency, rates, applied, doc, lines>>

NextFeed ==
    \/ Pop
    \/ Peek
    \/ \E ids \in FeedIdSets : Popany(ids)
    \/ \E id \in FeedIds : Nextis(id)
    \/ \E id \in FeedIds : Skipif(id, NoToken)
    \/ \E like \in FeedValues : Skipif(INDENT, like)
    \/ \E id \in FeedIds : Get(id)

SpecFeed == InitFeed /\ [][NextFeed]_vars

\* ------------------------------------------------------------------ properties
RootSegs == {"a", "e", "l", "i"}
Roots == {<<r>> : r \in RootSegs}
AllCurrencies == {"USD", "RUR"}

\* balance[c] as the program reads it: a missing key counts 0
Bal(balance, c) == IF c \in DOMAIN balance THEN balance[c] ELSE 0

\* A is q or an ancestor of q
IsPrefix(A, q) == Len(A) <= Len(q) /\ SubSeq(q, 1, Len(A)) = A

\* the sign multiplier of the root of A
RootSign(A) == IF A[1] \in {"a", "e"} THEN 1 ELSE -1

\* what one operation adds to A.balance[c]
Delta(op, A, c) ==
    IF IsPrefix(A, op.account) /\ (IF op.currency = None THEN currency ELSE op.currency) = c
    THEN IF op.initial THEN op.amount ELSE op.amount * RootSign(A)
    ELSE 0

\* the sum of Delta over the operations of the bag of calls B that were applied
RECURSIVE SumCalls(_, _, _, _)
SumCalls(B, S, A, c) ==
    IF S = {} THEN 0
    ELSE LET x == CHOOSE x \in S : TRUE
         IN  (IF x.call = "process_account" /\ x.ok THEN B[x] * Delta(x.arg, A, c) ELSE 0)
             + SumCalls(B, S \ {x}, A, c)

\* C2: every balance of every account is the sum, over the operations applied
\* to the account or to a descendant of it in that currency, of the amount as
\* written when the operation is initial and of the amount times the sign
\* multiplier of the account's root when it is not; the account of every
\* applied operation and all its ancestors are in the ledger.
C2_BalanceIsSumOfOperations ==
    /\ \A A \in DOMAIN accounts :
          /\ DOMAIN accounts[A].balance \subseteq AllCurrencies
          /\ \A c \in AllCurrencies :
                Bal(accounts[A].balance, c) = SumCalls(applied, DOMAIN applied, A, c)
    /\ \A x \in DOMAIN applied :
          x.call = "process_account" /\ x.ok =>
             \A k \in 1..Len(x.arg.account) : SubSeq(x.arg.account, 1, k) \in DOMAIN accounts

C2_Witness ==
    /\ \E x, y \in DOMAIN applied :
          /\ x.call = "process_account" /\ y.call = "process_account"
          /\ x.arg.account = <<"l", "p", "q">> /\ ~x.arg.initial
          /\ y.arg.account = <<"l", "p">> /\ y.arg.initial
          /\ x.arg.currency = y.arg.currency
    /\ Bal(accounts[<<"l">>].balance, "USD") + Bal(accounts[<<"l">>].balance, "RUR") # 0

\* C3: a call of equity returns a mapping whose keys are the currencies that
\* the balance of assets or the balance of liabilities held when it was
\* called, and whose value for each is the assets balance less the liabilities
\* balance, a missing one counting 0.
C3_EquityIsAssetsLessLiabilities ==
    [][result'.call = "equity" =>
          LET a == accounts[<<"a">>].balance
              l == accounts[<<"l">>].balance
          IN  /\ DOMAIN result'.value = DOMAIN a \cup DOMAIN l
              /\ \A c \in DOMAIN result'.value : result'.value[c] = Bal(a, c) - Bal(l, c)]_vars

C3_Witness ==
    /\ result.call = "equity"
    /\ DOMAIN result.value = {"USD", "RUR"}
    /\ \E c \in AllCurrencies : Bal(accounts[<<"l">>].balance, c) # 0
    /\ \E c \in AllCurrencies : Bal(accounts[<<"a">>].balance, c) # 0

\* C4: get_account called with the name of an account that exists returns
\* that account and leaves the whole ledger as it was; process_account on
\* such a name creates no account and adds to the balances there were.
C4_GetAccountIdempotent ==
    [][/\ result'.call = "get_account" /\ result'.arg \in DOMAIN accounts =>
            result'.ok /\ result'.value = result'.arg /\ accounts' = accounts
       /\ result'.call = "process_account" /\ result'.arg.account \in DOMAIN accounts =>
            /\ result'.ok
            /\ DOMAIN accounts' = DOMAIN accounts
            /\ \A A \in DOMAIN accounts, c \in AllCurrencies :
                  Bal(accounts'[A].balance, c)
                     = Bal(accounts[A].balance, c) + Delta(result'.arg, A, c)]_vars

C4_Witness ==
    /\ result.call = "get_account" /\ result.ok
    /\ Len(result.value) = 3
    /\ \E c \in AllCurrencies : Bal(accounts[result.value].balance, c) # 0

\* C5: the four roots are in the lookup; every other account of the lookup has
\* as parent the account named by its own name less the last segment, which is
\* in the lookup, lists it under its title and is one level up, and no other
\* account lists it; its sign multiplier is that of its root.
C5_AccountTree ==
    /\ Roots \subseteq DOMAIN accounts
    /\ \A q \in DOMAIN accounts :
          LET acc == accounts[q]
          IN  /\ acc.qname = q
              /\ q \in Roots => acc.parent = NoAccount /\ acc.level = 0
              /\ q \notin Roots =>
                    /\ Len(q) > 1
                    /\ acc.parent = SubSeq(q, 1, Len(q) - 1)
                    /\ acc.parent \in DOMAIN accounts
                    /\ acc.title = q[Len(q)]
                    /\ acc.title \in DOMAIN accounts[acc.parent].accounts
                    /\ accounts[acc.parent].accounts[acc.title] = q
                    /\ acc.level = accounts[acc.parent].level + 1
                    /\ acc.reverse = accounts[<<q[1]>>].reverse
                    /\ \A o \in DOMAIN accounts :
                          (\E t \in DOMAIN accounts[o].accounts : accounts[o].accounts[t] = q)
                             => o = acc.parent

C5_Witness ==
    /\ <<"l", "p", "q">> \in DOMAIN accounts
    /\ <<"a", "p">> \in DOMAIN accounts
    /\ accounts[<<"l", "p", "q">>].level = 2

\* C6: get_account raises KeyError for every name whose first segment is not
\* a, e, l or i, a name of one segment included, and returns an account for
\* every name of two or more segments whose first is one of the four.
C6_UnknownRoot ==
    result.call = "get_account" =>
       /\ result.arg[1] \notin RootSegs => ~result.ok
       /\ result.arg[1] \in RootSegs /\ Len(result.arg) > 1 =>
             result.ok /\ result.value = result.arg /\ result.arg \in DOMAIN accounts

C6_Witness ==
    /\ result.call = "get_account" /\ ~result.ok
    /\ Len(result.arg) = 1
    /\ \E x \in DOMAIN applied : x.call = "get_account" /\ Len(x.arg) = 3 /\ x.arg[1] = "e"

\* ------------------------------------------------------------------ properties of parse and make_cash
AssetsBalance == accounts[<<"a">>].balance
ExpensesBalance == accounts[<<"e">>].balance
LiabilitiesBalance == accounts[<<"l">>].balance

\* ops is a sequence of from/to pairs in the base currency between accounts
\* under assets and expenses: -n on the first account, +n on the second
PairsOnly(ops) ==
    /\ Len(ops) % 2 = 0
    /\ \A k \in 1..(Len(ops) \div 2) :
          LET x == ops[2 * k - 1]
              y == ops[2 * k]
          IN  /\ ~x.initial /\ ~y.initial
              /\ x.amount = -y.amount
              /\ x.currency \in {None, currency} /\ y.currency \in {None, currency}
              /\ x.account[1] \in {"a", "e"} /\ y.account[1] \in {"a", "e"}

DayNumber(d) == d.year * 10000 + d.month * 100 + d.day

\* the operations of ops dated from start on and before end, in their order
RECURSIVE Kept(_, _, _)
Kept(ops, start, end) ==
    IF ops = <<>> THEN <<>>
    ELSE LET it == Head(ops)
             in == /\ (start # NoDate => DayNumber(it.dt) >= DayNumber(start))
                   /\ (end # NoDate => DayNumber(it.dt) < DayNumber(end))
         IN  (IF in THEN <<it>> ELSE <<>>) \o Kept(Tail(ops), start, end)

\* the ledger holds what process_account made of the operations of result.ops
HoldsApplied ==
    \A A \in DOMAIN accounts, c \in AllCurrencies :
       Bal(accounts[A].balance, c) = SumCalls(applied, DOMAIN applied, A, c)

\* C7 as claimed: make_cash applies, in their order, the parsed operations
\* dated from start on and before end; one dated end is never applied and one
\* dated start always is.
C7_Original ==
    pc = "done" =>
       /\ result.ops = Kept(feed.config.ops, result.start, result.end)
       /\ HoldsApplied
       /\ \A i \in 1..Len(feed.config.ops) :
             LET it == feed.config.ops[i]
             IN  /\ it.dt = result.end => \A j \in 1..Len(result.ops) : result.ops[j] # it
                 /\ it.dt = result.start => \E j \in 1..Len(result.ops) : result.ops[j] = it

\* C7 as amended: one dated start is applied when no end is given or the end
\* is after the start.
C7_HalfOpenFilter ==
    pc = "done" =>
       /\ result.ops = Kept(feed.config.ops, result.start, result.end)
       /\ HoldsApplied
       /\ \A i \in 1..Len(feed.config.ops) :
             LET it == feed.config.ops[i]
             IN  /\ it.dt = result.end => \A j \in 1..Len(result.ops) : result.ops[j] # it
                 /\ it.dt = result.start
                       /\ (result.end = NoDate
                              \/ DayNumber(result.start) < DayNumber(result.end))
                       => \E j \in 1..Len(result.ops) : result.ops[j] = it

C7_Witness ==
    /\ pc = "done"
    /\ result.start = D1 /\ result.end = D2
    /\ Len(feed.config.ops) = 4 /\ Len(result.ops) = 2
    /\ feed.config.ops[1].dt = D2 /\ feed.config.ops[3].dt = D1
    /\ Bal(ExpensesBalance, "USD") = 100

RECURSIVE SumAmounts(_)
SumAmounts(legs) == IF legs = <<>> THEN 0 ELSE Head(legs).amount + SumAmounts(Tail(legs))

\* the split block that lists each leg of the rev block e with its amount
\* negated, and then the account of e with the sum of the amounts
SplitOf(e) ==
    Dated("split", e.dt, NoAccount,
          [i \in 1..Len(e.legs) |-> Leg(e.legs[i].account, -e.legs[i].amount, None, <<>>)]
             \o <<Leg(e.first, SumAmounts(e.legs), None, <<>>)>>)

RevExample ==
    <<Dated("rev", D1, Flat, <<Leg(Pocket, 500, None, <<>>), Leg(Friend, 100, None, <<>>)>>)>>

Unbounded == result.start = NoDate /\ result.end = NoDate

C9_Original ==
    pc = "done" /\ doc = RevExample /\ Unbounded =>
       /\ Bal(AssetsBalance, "USD") = -600
       /\ Bal(ExpensesBalance, "USD") = 600
       /\ Bal(LiabilitiesBalance, "USD") = 100
       /\ equity(accounts).value = [c \in {"USD"} |-> -600]

\* C9 as amended: it gives assets -500, expenses 600, liabilities 100 and
\* equity -600.
C9_RevExample ==
    pc = "done" /\ doc = RevExample /\ Unbounded =>
       /\ Bal(AssetsBalance, "USD") = -500
       /\ Bal(ExpensesBalance, "USD") = 600
       /\ Bal(LiabilitiesBalance, "USD") = 100
       /\ equity(accounts).value = [c \in {"USD"} |-> -600]

C9_Witness ==
    /\ pc = "done" /\ doc = RevExample /\ Unbounded
    /\ Len(result.ops) = 4

\* the comment of a line: its words joined by one space, None without any
RECURSIVE Spaced(_)
Spaced(words) ==
    IF Len(words) = 1 THEN words[1] ELSE words[1] \o " " \o Spaced(Tail(words))
CommentOf(leg) == IF leg.comment = <<>> THEN None ELSE Spaced(leg.comment)

\* the operations an amount line of a dated entry stands for
LegOps(e, leg) ==
    CASE e.form \in {"inline", "block", "nested"} ->
            <<Op(FALSE, e.dt, e.first, -leg.amount, leg.currency, CommentOf(leg)),
              Op(FALSE, e.dt, leg.account, leg.amount, leg.currency, CommentOf(leg))>>
      [] e.form = "rev" ->
            <<Op(FALSE, e.dt, e.first, leg.amount, leg.currency, CommentOf(leg)),
              Op(FALSE, e.dt, leg.account, -leg.amount, leg.currency, CommentOf(leg))>>
      [] e.form = "split" ->
            <<Op(FALSE, e.dt, leg.account, leg.amount, leg.currency, CommentOf(leg))>>

RECURSIVE LegsOps(_, _)
LegsOps(e, legs) ==
    IF legs = <<>> THEN <<>> ELSE LegOps(e, Head(legs)) \o LegsOps(e, Tail(legs))

EntryOps(e) ==
    CASE e.kind = "dated" -> LegsOps(e, e.legs)
      [] e.kind = "initial" ->
            <<Op(TRUE, INITDATE, e.leg.account, e.leg.amount, e.leg.currency,
                 CommentOf(e.leg))>>
      [] e.kind = "initials" ->
            [i \in 1..Len(e.legs) |->
                Op(TRUE, INITDATE, e.legs[i].account, e.legs[i].amount,
                   e.legs[i].currency, CommentOf(e.legs[i]))]
      [] OTHER -> <<>>

RECURSIVE ExpectedOps(_)
ExpectedOps(d) == IF d = <<>> THEN <<>> ELSE EntryOps(Head(d)) \o ExpectedOps(Tail(d))

\* C10: parse returns, for every amount line of a from/to entry, the leg of
\* the first account with the amount negated and then the leg of the second
\* with the amount as written, the signs the other way round under rev; for
\* every amount line of a split entry one operation with the amount as
\* written; for every initial line one initial operation dated INITDATE; all
\* with the date, currency and comment of the line, in the order of the lines.
C10_OperationsPerLine ==
    pc \in {"parsed", "done"} =>
       /\ feed.st = "eof"
       /\ feed.config.ops = ExpectedOps(doc)
       /\ \A i \in 1..Len(feed.config.ops) :
             LET x == feed.config.ops[i]
             IN  x.initial <=> x.dt = INITDATE

C10_Witness ==
    /\ pc = "parsed"
    /\ Len(doc) = 2
    /\ doc[1].kind = "initial" /\ doc[1].leg.currency = "RUR"
    /\ doc[2].kind = "dated" /\ Len(doc[2].legs) = 1 /\ doc[2].legs[1].currency = "RUR"
    /\ Len(feed.config.ops) = 3
    /\ feed.config.ops[3].comment = "two words"

\* ------------------------------------------------------------------ properties of convert_amount
\* the multiplier of the last rate line of d that names code, 0 when none does
RECURSIVE Registered(_, _)
Registered(d, code) ==
    IF d = <<>> THEN 0
    ELSE LET e == d[Len(d)]
         IN  IF e.kind = "rate" /\ e.code = code THEN e.multiplier
             ELSE Registered(SubSeq(d, 1, Len(d) - 1), code)

\* C11: convert_amount returns the amount as it is when the two currencies
\* are the same; otherwise the amount times the multiplier registered for the
\* pair in that order, and KeyError when none is registered for the pair in
\* that order, whatever is registered for the reverse pair or for a chain.
C11_ConvertAmount ==
    result.call = "convert_amount" =>
       LET f == result.arg[1]
           t == result.arg[2]
           n == result.arg[3]
           m == Registered(doc, f \o t)
       IN  /\ f = t => result.ok /\ result.value = n
           /\ f # t /\ m # 0 => result.ok /\ result.value = n * m
           /\ f # t /\ m = 0 => ~result.ok

C11_Witness ==
    /\ result.call = "convert_amount" /\ ~result.ok
    /\ result.arg[1] = "RUR" /\ result.arg[2] = "USD"
    /\ Registered(doc, "USDRUR") # 0
    /\ Registered(doc, "RUREUR") # 0 /\ Registered(doc, "EURUSD") # 0

\* ------------------------------------------------------------------ properties of the forms of an entry
\* e with every line that can stand under its head line indented under it
AsBlock(e) ==
    CASE e.kind = "dated" /\ e.form \in {"inline", "block"} ->
            Dated("nested", e.dt, e.first, e.legs)
      [] e.kind = "initial" -> [legs |-> <<e.leg>>, kind |-> "initials"]
      [] e.kind = "rate" ->
            [legs |-> <<[code |-> e.code, multiplier |-> e.multiplier]>>, kind |-> "rates"]
      [] OTHER -> e

\* a one-line dated entry with its second account and amount indented under
\* the date and first account
AsHalfBlock(e) ==
    IF e.kind = "dated" /\ e.form = "inline" THEN Dated("block", e.dt, e.first, e.legs)
    ELSE e

\* the one-line entries that say what the dated entry e says, leg by leg
InlineOf(e) == [i \in 1..Len(e.legs) |-> Dated("inline", e.dt, e.first, <<e.legs[i]>>)]

\* C12: a file of one-line entries parses to the same configuration
\* (operations in order, rates, currency) when every dated entry is written
\* with its second account and amount indented under the date and first
\* account, and when every dated entry is fully nested and every rate and
\* initial line is an indented block; a block of several legs under
\* one date and first account parses to the operations of the one-line
\* entries of its legs, and so does its fully nested form.
C12_InlineEqualsBlock ==
    pc = "parsed" =>
       /\ (\A i \in 1..Len(doc) : doc[i].kind # "dated" \/ doc[i].form = "inline") =>
             /\ feed.config
                   = parse(Render([i \in 1..Len(doc) |-> AsHalfBlock(doc[i])])).config
             /\ feed.config = parse(Render([i \in 1..Len(doc) |-> AsBlock(doc[i])])).config
       /\ Len(doc) = 1 /\ doc[1].kind = "dated" /\ doc[1].form = "block" =>
             /\ feed.config = parse(Render(InlineOf(doc[1]))).config
             /\ feed.config = parse(Render(<<AsBlock(doc[1])>>)).config

C12_Witness ==
    /\ pc = "parsed"
    /\ Len(doc) = 2
    /\ doc[1].kind = "rate" /\ doc[2].kind = "dated" /\ doc[2].form = "inline"
    /\ doc[2].legs[1].currency = "RUR"
    /\ Len(feed.config.ops) = 2 /\ DOMAIN feed.config.rates = {"RURUSD"}

\* ------------------------------------------------------------------ properties of the month arithmetic
\* the calendar: the day d of month m of year y is a day there is
OnCalendar(y, m, d) ==
    /\ y \in 1..9999 /\ m \in 1..12 /\ d >= 1
    /\ m \in {1, 3, 5, 7, 8, 10, 12} => d <= 31
    /\ m \in {4, 6, 9, 11} => d <= 30
    /\ m = 2 => d <= (IF (y % 4 = 0 /\ y % 100 # 0) \/ y % 400 = 0 THEN 29 ELSE 28)

\* the month after and the month before month m of year y, as <<year, month>>
MonthAfter(y, m) == IF m = 12 THEN <<y + 1, 1>> ELSE <<y, m + 1>>
MonthBefore(y, m) == IF m = 1 THEN <<y - 1, 12>> ELSE <<y, m - 1>>

\* C13 as claimed: for every date, month_range returns the first day of its
\* month and the first day of the month after, prev_month returns the same day
\* of the month before, and prev_month of the end of the range is its start.
C13_Original ==
    LET d == result.arg
    IN  /\ result.call = "month_range" =>
              LET after == MonthAfter(d.year, d.month)
              IN  /\ result.ok
                  /\ result.value = <<Date(d.year, d.month, 1), Date(after[1], after[2], 1)>>
                  /\ prev_month(result.value[2]).ok
                  /\ prev_month(result.value[2]).value = result.value[1]
        /\ result.call = "prev_month" =>
              LET before == MonthBefore(d.year, d.month)
              IN  result.ok /\ result.value = Date(before[1], before[2], d.day)

\* C13 as amended: month_range does so unless the month after is past year
\* 9999, where it raises ValueError; prev_month does so when the day is a day
\* of the month before, and raises ValueError when it is not or the month
\* before is in no year; whenever month_range returns, prev_month of the end
\* of the range is its start.
C13_MonthArithmetic ==
    LET d == result.arg
    IN  /\ result.call = "month_range" =>
              LET after == MonthAfter(d.year, d.month)
              IN  IF OnCalendar(after[1], after[2], 1)
                  THEN /\ result.ok
                       /\ result.value
                             = <<Date(d.year, d.month, 1), Date(after[1], after[2], 1)>>
                       /\ prev_month(result.value[2]).ok
                       /\ prev_month(result.value[2]).value = result.value[1]
                  ELSE ~result.ok
        /\ result.call = "prev_month" =>
              LET before == MonthBefore(d.year, d.month)
              IN  IF OnCalendar(before[1], before[2], d.day)
                  THEN result.ok /\ result.value = Date(before[1], before[2], d.day)
                  ELSE ~result.ok

C13_Witness ==
    /\ result.call = "prev_month" /\ result.ok
    /\ result.arg = Date(2020, 3, 29)
    /\ result.value = Date(2020, 2, 29)

\* ------------------------------------------------------------------ properties of indent
\* the tokens a cursor has yet to hand out: the one it holds, then the lexer's
Rem(P) == (IF P.item = NoToken THEN <<>> ELSE <<P.item>>) \o P.toks

\* the cursor that holds nothing and has the tokens q ahead of it
Ahead(P, q) == [P EXCEPT !.item = NoToken, !.toks = q]

\* The steps of the combinator told on the token stream alone, f being the
\* callback: the repetition takes one marker whose text is ind and calls f
\* once, and stops at the first token that is no such marker, which stays.
BlockSteps(P, f(_)) ==
    LET RECURSIVE Rep(_, _)
        Rep(p, ind) ==
            IF p.st # "ok" \/ Rem(p) = <<>> THEN p
            ELSE IF Rem(p)[1].id = INDENT /\ Rem(p)[1].value = ind
                 THEN Rep(f(Ahead(p, Tail(Rem(p)))), ind)
            ELSE p
    IN  IF Rem(P) = <<>> THEN P
        ELSE IF Rem(P)[1].id # LEND THEN f(P)
        ELSE IF Len(Rem(P)) = 1 THEN Ahead(P, <<>>)
        ELSE IF Rem(P)[2].id # INDENT THEN Ahead(P, Tail(Rem(P)))
        ELSE Rep(Ahead(P, Tail(Rem(P))), Rem(P)[2].value)

\* two cursors that have the same tokens ahead, the same config, and have
\* both met a parse error or neither
Same(P, Q) ==
    /\ Rem(P) = Rem(Q)
    /\ P.config = Q.config
    /\ (P.st = "err") = (Q.st = "err")

\* the cursor at place k of the token stream of the file, holding the token
\* of that place or not
Place(P, k, holding) ==
    IF holding /\ k <= Len(P.toks)
    THEN [P EXCEPT !.item = P.toks[k], !.toks = SubSeq(P.toks, k + 1, Len(P.toks))]
    ELSE Ahead(P, SubSeq(P.toks, k, Len(P.toks)))

\* what indent does is what BlockSteps tells, for each callback the parser
\* decorates
StepsAt(P) ==
    /\ Same(indent(P, parse_rate_line), BlockSteps(P, parse_rate_line))
    /\ Same(indent(P, parse_initial_line), BlockSteps(P, parse_initial_line))
    /\ Same(indent(P, LAMBDA p : parse_from(p, D1)),
            BlockSteps(P, LAMBDA p : parse_from(p, D1)))
    /\ \A reverse \in BOOLEAN :
          /\ Same(indent(P, LAMBDA p : parse_to(p, D1, reverse, Pocket)),
                  BlockSteps(P, LAMBDA p : parse_to(p, D1, reverse, Pocket)))
          /\ Same(indent(P, LAMBDA p : parse_op(p, D1, reverse, Pocket, Flat)),
                  BlockSteps(P, LAMBDA p : parse_op(p, D1, reverse, Pocket, Flat)))
    /\ Same(indent(P, LAMBDA p : parse_split_acc(p, D1)),
            BlockSteps(P, LAMBDA p : parse_split_acc(p, D1)))
    /\ Same(indent(P, LAMBDA p : parse_split_op(p, D1, Pocket)),
            BlockSteps(P, LAMBDA p : parse_split_op(p, D1, Pocket)))

\* C14: indent(f) on a cursor whose next token is no LEND calls f exactly once
\* and takes no token itself; on a LEND it takes it, fixes the indentation
\* string as the value of the token that follows, then takes one INDENT token
\* of exactly that value and calls f once, again and again, and stops at the
\* first token that is no such marker, leaving it untaken.  Stated for each
\* of the callbacks the parser decorates, at every place of the token stream
\* of a file, and for the turn of parse that a rate, initial or date token
\* opens.
C14_IndentSteps ==
    /\ (pc = "parse" /\ Rem(feed) = lexer(lines, 1)) =>
          \A k \in 1..(Len(feed.toks) + 1), holding \in BOOLEAN :
              StepsAt(Place(feed, k, holding))
    /\ (pc = "parse" /\ Rem(feed) # <<>>) =>
          LET t == pop(feed)
          IN  /\ t.val.id = RATE =>
                    Same(parse_root(feed), BlockSteps(t, parse_rate_line))
              /\ t.val.id = INITIAL =>
                    Same(parse_root(feed), BlockSteps(t, parse_initial_line))
              /\ t.val.id = DATE =>
                    Same(parse_root(feed),
                         BlockSteps(t, LAMBDA p : parse_from(p, t.val.value)))

\* a turn of parse has read an entry whose accounts and amounts stand on
\* lines of their own, three levels deep, two amounts under two accounts
C14_Witness ==
    /\ pc \in {"parse", "parsed"}
    /\ Len(doc) = 1 /\ doc[1].kind = "dated" /\ doc[1].form = "nested"
    /\ Len(doc[1].legs) = 2
    /\ doc[1].legs[1].account # doc[1].legs[2].account
    /\ Len(feed.config.ops) = 4
    /\ Rem(feed) = <<>>

\* C15: whenever indent finds a LEND as the next token, func has been called
\* at least once by the time indent returns.  Each call of the callbacks of
\* `initial` and of a date that returns appends an operation, so a turn of
\* parse that `initial` or a date opens with a LEND next, and that returns,
\* leaves more operations than it found.
C15_AtLeastOnce ==
    (/\ pc = "parse"
     /\ Len(Rem(feed)) >= 2
     /\ Rem(feed)[1].id \in {INITIAL, DATE}
     /\ Rem(feed)[2].id = LEND
     /\ parse_root(feed).st = "ok")
    => Len(parse_root(feed).config.ops) > Len(feed.config.ops)

\* ------------------------------------------------------------------ properties of the feed
\* the same token: the same kind on the same line with the same value
SameTok(a, b) == a.id = b.id /\ a.line = b.line /\ a.value = b.value

SameToks(p, q) == Len(p) = Len(q) /\ \A i \in 1..Len(p) : SameTok(p[i], q[i])

\* the next pop on P ends as the next pop on Q, and returns the same token
SamePop(P, Q) ==
    /\ pop(P).st = pop(Q).st
    /\ pop(P).st = "ok" => SameTok(pop(P).val, pop(Q).val)

\* what the feed handed over is the start of what the lexer yields, in
\* order; unless the run ended in the Exception of popany, what it holds and
\* what the lexer has yet to yield is all the rest, so it holds at most one
\* token
HandedInOrder ==
    LET all == lexer(lines, 1)
    IN  /\ Len(taken) <= Len(all)
        /\ SameToks(taken, SubSeq(all, 1, Len(taken)))
        /\ feed.st # "err" =>
              /\ SameToks(taken \o Rem(feed), all)
              /\ Len(all) - Len(feed.toks) - Len(taken) \in {0, 1}

\* peek, nextis and a skipif that returns False leave the next pop as it was
ProbesKeep ==
    /\ SamePop(peek(feed), feed)
    /\ \A id \in FeedIds : SamePop(nextis(feed, id), feed)
    /\ \A id \in FeedIds :
          LET r == skipif(feed, id, NoToken)
          IN  (r.st = "ok" /\ ~r.val) => SamePop(r, feed)
    /\ \A like \in FeedValues :
          LET r == skipif(feed, INDENT, like)
          IN  (r.st = "ok" /\ ~r.val) => SamePop(r, feed)

\* get(id) returns None: the next token is of another kind, or it is of the
\* kind asked for and its value is None, as the value of a LEND token is
GetReturnsNone(id) ==
    LET n == nextis(feed, id)
    IN  n.st = "ok" /\ (~n.val \/ pop(n).val.id = LEND)

\* C16 as stated: the feed buffers at most one token; the tokens handed over
\* (returned by pop or popany, dropped by a skipif that returns True or by a
\* get) are a prefix of the lexer's output in order, none skipped, none
\* handed over twice; peek, nextis, a skipif that returns False and a get
\* that returns nothing leave the result of the next pop unchanged.
C16_Original ==
    pc \in {"feed", "ended"} =>
        /\ HandedInOrder
        /\ pc = "feed" =>
              /\ ProbesKeep
              /\ \A id \in FeedIds : GetReturnsNone(id) => SamePop(get(feed, id), feed)

\* C16, amended: as stated, but for get it is the get that finds a token of
\* another kind that leaves the next pop unchanged; get(LEND) on a LEND token
\* returns nothing and yet takes the token.
C16_TokenCursor ==
    pc \in {"feed", "ended"} =>
        /\ HandedInOrder
        /\ pc = "feed" =>
              /\ ProbesKeep
              /\ \A id \in FeedIds :
                    LET n == nextis(feed, id)
                    IN  /\ (n.st = "ok" /\ ~n.val) => SamePop(get(feed, id), feed)
                        /\ (n.st = "ok" /\ n.val /\ id = LEND) =>
                              /\ get(feed, id).val = None
                              /\ Rem(get(feed, id)) = Tail(Rem(feed))

\* a skipif has put back the token it popped, after three tokens were handed
\* over and with more to come
C16_Witness ==
    /\ pc = "feed"
    /\ result.call = "skipif"
    /\ feed.item # NoToken
    /\ Len(taken) >= 3
    /\ feed.toks # <<>>

\* ------------------------------------------------------------------ properties of the end of parse
\* parse on the first k tokens of the file only
CutAt(P, k) == ParseLoop(Ahead(P, SubSeq(Rem(P), 1, k)))

\* the lexer running dry after k tokens ends parse as StopIteration does, with
\* operations that parse of the whole file starts with, unless parse of the
\* whole file has met its parse error within those k tokens
EndsNormally(P, k) ==
    LET whole == ParseLoop(P)
        cut == CutAt(P, k)
    IN  \/ /\ cut.st = "eof"
           /\ Len(cut.config.ops) <= Len(whole.config.ops)
           /\ cut.config.ops = SubSeq(whole.config.ops, 1, Len(cut.config.ops))
           /\ k = Len(Rem(P)) => cut.config = whole.config
        \/ /\ cut.st = "err"
           /\ whole.st = "err"
           /\ cut.config = whole.config
           /\ k - Len(Rem(cut)) = Len(Rem(P)) - Len(Rem(whole))

\* every turn of the loop of parse that returns has taken a token, and so
\* has every turn of the loop of a block
TurnsTakeTokens ==
    /\ parse_root(feed).st = "ok" => Len(Rem(parse_root(feed))) < Len(Rem(feed))
    /\ (Rem(feed) # <<>> /\ Rem(feed)[1].id = INDENT) =>
          LET s == skipif(feed, INDENT, Rem(feed)[1])
          IN  s.val /\ Len(Rem(s)) = Len(Rem(feed)) - 1
    /\ Rem(feed) = <<>> =>
          parse_root(feed).st = "eof" /\ parse_root(feed).config = feed.config

\* what holds of parse while it runs and once it has ended
ParseEnds ==
    /\ pc = "parse" => TurnsTakeTokens
    /\ (pc = "parse" /\ Rem(feed) = lexer(lines, 1)) =>
          \A k \in 0..Len(Rem(feed)) : EndsNormally(feed, k)
    /\ pc = "parsed" => feed.st = "eof"

\* C17: parse terminates on every finite file: each turn of its loop and of
\* a block's loop takes at least one token, and the lexer running dry,
\* wherever it is found out, ends parse normally with the operations and
\* directives collected so far, never as a parse error.
C17_ParseTerminates == []ParseEnds /\ <>(pc # "parse")

\* parse has ended normally on a file that stops after the first account of
\* a dated entry, with the operations of the entry before it
C17_Witness ==
    /\ pc = "parsed"
    /\ Len(doc) = 2
    /\ doc[2] = Unfinished
    /\ Len(feed.config.ops) = 2
    /\ feed.st = "eof"

\* ------------------------------------------------------------------ properties of from/to entries
IncomeBalance == accounts[<<"i">>].balance

\* the file holds no initial line and no split entry: every operation comes
\* of a from/to entry, with rev or without
FromToOnly(d) ==
    \A k \in 1..Len(d) :
        \/ d[k].kind \in {"currency", "rate", "rates", "comment"}
        \/ d[k].kind = "dated" /\ d[k].form \in {"inline", "block", "nested", "rev"}

C19_EquityIsPure ==
    pc = "ledger" =>
        LET after == equity(accounts).accs
        IN  /\ DOMAIN after = DOMAIN accounts
            /\ \A q \in DOMAIN accounts : after[q].balance = accounts[q].balance
            /\ \A r \in {<<"a">>, <<"l">>} :
                  total(rates, currency, after[r].balance)
                      = total(rates, currency, accounts[r].balance)

\* ------------------------------------------------------------------ properties of a failing operation
\* the operations of ops before the first on an account under no root
RECURSIVE Before(_)
Before(ops) ==
    IF ops = <<>> \/ Head(ops).account[1] \notin RootSegs THEN <<>>
    ELSE <<Head(ops)>> \o Before(Tail(ops))

\* the names of the accounts of ops and of their ancestors
Named(ops) ==
    UNION {{SubSeq(ops[k].account, 1, n) : n \in 1..Len(ops[k].account)} : k \in 1..Len(ops)}

\* C20: an operation on an account under no root fails without an account
\* made and without a balance changed; what the operations before it in the
\* same call of apply_operations did stays, and no operation after it is
\* applied.
C20_FailingOperationIsAtomic ==
    (pc = "failed" /\ result.call = "make_cash") =>
        LET kept == Kept(feed.config.ops, result.start, result.end)
        IN  /\ Len(result.ops) < Len(kept)
            /\ result.ops = Before(kept)
            /\ kept[Len(result.ops) + 1].account[1] \notin RootSegs
            /\ DOMAIN accounts = Roots \cup Named(result.ops)
            /\ HoldsApplied
            /\ accounts = apply_operations(CashAccounts, currency, result.ops, <<>>).accs

\* make_cash has failed on the second leg of the second entry: the two
\* operations of the first entry and the first leg of the second are applied
C20_Witness ==
    /\ pc = "failed" /\ result.call = "make_cash"
    /\ Len(doc) = 2 /\ doc[2] = Stray /\ doc[1].kind = "dated"
    /\ Len(result.ops) = 3
    /\ Len(feed.config.ops) = 4

============================================================================
